---- MODULE Spec2Model ----
(***************************************************************************)
(* Model of ansible_testing/modules.py: the module validator               *)
(* (Validator, ModuleValidator, PythonPackageValidator) and the main()     *)
(* driver that walks a module tree and exits with the accumulated status.  *)
(*                                                                         *)
(* Texts that the code parses or formats (version numbers) are sequences   *)
(* of one-character strings; messages are strings built with \o as the     *)
(* code builds them with %.                                                *)
(***************************************************************************)
EXTENDS Integers, Sequences, FiniteSets, TLC

(***************************************************************************)
(* Text helpers                                                            *)
(***************************************************************************)
DigitChars == <<"0", "1", "2", "3", "4", "5", "6", "7", "8", "9">>

IsDigit(c) == \E i \in 1..10 : DigitChars[i] = c

DigitVal(c) == (CHOOSE i \in 1..10 : DigitChars[i] = c) - 1

\* str.join of a sequence of one-character strings into one string
RECURSIVE Text(_)
Text(cs) == IF cs = <<>> THEN "" ELSE Head(cs) \o Text(Tail(cs))

\* '%d' % n for a natural number, as a sequence of characters
RECURSIVE IntChars(_)
IntChars(n) == IF n < 10 THEN <<DigitChars[n + 1]>>
               ELSE IntChars(n \div 10) \o <<DigitChars[(n % 10) + 1]>>

IntText(n) == Text(IntChars(n))

\* int(s) for a sequence of digit characters
RECURSIVE IntOf(_)
IntOf(cs) == IF cs = <<>> THEN 0
             ELSE IntOf(SubSeq(cs, 1, Len(cs) - 1)) * 10 + DigitVal(cs[Len(cs)])

\* length of the maximal run of digits of cs that starts at position i (\d+)
RECURSIVE DigitRun(_, _)
DigitRun(cs, i) == IF i <= Len(cs) /\ IsDigit(cs[i]) THEN 1 + DigitRun(cs, i + 1)
                   ELSE 0

\* str.split('.') on a sequence of characters
RECURSIVE SplitDots(_)
SplitDots(cs) ==
    IF \A i \in 1..Len(cs) : cs[i] # "."
    THEN <<cs>>
    ELSE LET k == CHOOSE i \in 1..Len(cs) : cs[i] = "." /\ \A j \in 1..(i - 1) : cs[j] # "."
         IN  <<SubSeq(cs, 1, k - 1)>> \o SplitDots(SubSeq(cs, k + 1, Len(cs)))

\* '.'.join(parts)
RECURSIVE JoinDots(_)
JoinDots(parts) == IF parts = <<>> THEN <<>>
                   ELSE IF Len(parts) = 1 THEN parts[1]
                   ELSE parts[1] \o <<".">> \o JoinDots(Tail(parts))

(***************************************************************************)
(* distutils.version.StrictVersion                                         *)
(***************************************************************************)
NoPre == <<"", 0>>

\* length of the digits of an optional group of cs that starts at position i
\* with one of the characters of marks, 0 if the group does not match
GroupLen(cs, i, marks) ==
    IF i <= Len(cs) /\ cs[i] \in marks THEN DigitRun(cs, i + 1) ELSE 0

\* the position after an optional group that starts at i with n digits
AfterGroup(i, n) == IF n > 0 THEN i + 1 + n ELSE i

\* the match object: n1, n2, n3 and n4 are the lengths of the digits of the
\* major, minor, patch and prerelease groups; ok = FALSE stands for the
\* ValueError the constructor raises
MatchEnd(cs, n1, n2, n3, n4) ==
    LET e2 == n1 + 2 + n2
        e3 == AfterGroup(e2, n3)
        e4 == AfterGroup(e3, n4)
    IN  IF /\ n1 > 0
           /\ n1 + 1 <= Len(cs)
           /\ cs[n1 + 1] = "."
           /\ n2 > 0
           /\ e4 = Len(cs) + 1
        THEN [ok |-> TRUE,
              version |-> <<IntOf(SubSeq(cs, 1, n1)),
                            IntOf(SubSeq(cs, n1 + 2, e2 - 1)),
                            IF n3 > 0 THEN IntOf(SubSeq(cs, e2 + 1, e3 - 1)) ELSE 0>>,
              prerelease |-> IF n4 > 0
                             THEN <<cs[e3], IntOf(SubSeq(cs, e3 + 1, e4 - 1))>>
                             ELSE NoPre]
        ELSE [ok |-> FALSE, version |-> <<0, 0, 0>>, prerelease |-> NoPre]

MatchPre(cs, n1, n2, n3) ==
    MatchEnd(cs, n1, n2, n3, GroupLen(cs, AfterGroup(n1 + 2 + n2, n3), {"a", "b"}))

MatchPatch(cs, n1, n2) == MatchPre(cs, n1, n2, GroupLen(cs, n1 + 2 + n2, {"."}))

MatchMinor(cs, n1) == MatchPatch(cs, n1, DigitRun(cs, n1 + 2))

\* StrictVersion(vstring): match ^(\d+)\.(\d+)(\.(\d+))?([ab](\d+))?$
StrictVersion(cs) == MatchMinor(cs, DigitRun(cs, 1))

\* StrictVersion.__str__
VersionStr(v) ==
    LET base == IF v.version[3] = 0
                THEN IntText(v.version[1]) \o "." \o IntText(v.version[2])
                ELSE IntText(v.version[1]) \o "." \o IntText(v.version[2])
                     \o "." \o IntText(v.version[3])
    IN  IF v.prerelease = NoPre THEN base
        ELSE base \o v.prerelease[1] \o IntText(v.prerelease[2])

\* cmp() of two tuples of three numbers
TupleCmp(a, b) ==
    IF a[1] # b[1] THEN (IF a[1] < b[1] THEN -1 ELSE 1)
    ELSE IF a[2] # b[2] THEN (IF a[2] < b[2] THEN -1 ELSE 1)
    ELSE IF a[3] # b[3] THEN (IF a[3] < b[3] THEN -1 ELSE 1)
    ELSE 0

\* StrictVersion.__cmp__
VersionCmp(a, b) ==
    LET c == TupleCmp(a.version, b.version)
    IN  IF c # 0 THEN c
        ELSE IF a.prerelease = NoPre /\ b.prerelease = NoPre THEN 0
        ELSE IF a.prerelease # NoPre /\ b.prerelease = NoPre THEN -1
        ELSE IF a.prerelease = NoPre /\ b.prerelease # NoPre THEN 1
        ELSE IF a.prerelease[1] # b.prerelease[1]
             THEN (IF a.prerelease[1] = "a" THEN -1 ELSE 1)
        ELSE IF a.prerelease[2] # b.prerelease[2]
             THEN (IF a.prerelease[2] < b.prerelease[2] THEN -1 ELSE 1)
        ELSE 0

\* ansible.__version__ of the installed release
ansible_version == <<"2", ".", "3", ".", "0">>

\* should_be = '.'.join(ansible_version.split('.')[:2])
should_be == JoinDots(SubSeq(SplitDots(ansible_version), 1, 2))

strict_ansible_version == StrictVersion(should_be)

(***************************************************************************)
(* Python values.  An object is a record; an attribute the object does not *)
(* have is a field the record does not have, so an AttributeError is a     *)
(* failed HasAttr.                                                         *)
(***************************************************************************)
HasAttr(obj, attr) == attr \in DOMAIN obj

None == [type |-> "NoneType"]

\* a str whose characters are abstracted to its length and to what
\* yaml.safe_load makes of it
Str(len, load) == [type |-> "str", len |-> len, load |-> load]

\* s[1:]
Slice1(s) == [s EXCEPT !.len = IF s.len > 0 THEN s.len - 1 ELSE 0]

\* bool(value) of None or of a str
Truthy(v) == v # None /\ v.len > 0

\* a dict is a record of its items; dict.get(key, default)
DictGet(d, key, default) == IF key \in DOMAIN d THEN d[key] ELSE default

\* the empty dict
EmptyDict == [key \in {} |-> None]

\* what yaml.safe_load returns for a mapping
Dict(items) == [type |-> "dict", items |-> items]

\* the yaml.YAMLError raised at a zero-based problem mark
YAMLError(line, column) == [type |-> "YAMLError", line |-> line, column |-> column]

\* '%r' of a str
Repr(cs) == "'" \o Text(cs) \o "'"

(***************************************************************************)
(* AST nodes (module ast of Python 2)                                      *)
(***************************************************************************)
Name(id) == [kind |-> "Name", id |-> id]

Attribute(attr) == [kind |-> "Attribute", attr |-> attr]

StrNode(s) == [kind |-> "Str", s |-> s]

CallNode(func) == [kind |-> "Call", func |-> func]

NumNode == [kind |-> "Num", n |-> 1]

Assign(target, value) == [kind |-> "Assign", targets |-> <<target>>, value |-> value,
                          lineno |-> 0]

Import(name) == [kind |-> "Import", names |-> <<[name |-> name, asname |-> ""]>>,
                 lineno |-> 0]

\* the name of a module, as the str that child.module is
ModuleName(s) == [type |-> "str", s |-> s]

ImportFrom(module, name) ==
    [kind |-> "ImportFrom", module |-> module,
     names |-> <<[name |-> name, asname |-> ""]>>, lineno |-> 0]

Expr(value) == [kind |-> "Expr", value |-> value, lineno |-> 0]

If(test, body) == [kind |-> "If", test |-> test, body |-> body, lineno |-> 0]

TryExcept(body, handler) ==
    [kind |-> "TryExcept", body |-> body, handlers |-> <<[body |-> handler]>>,
     lineno |-> 0]

FunctionDef(name, span) == [kind |-> "FunctionDef", name |-> name, span |-> span,
                            lineno |-> 0]

\* the test of "if __name__ == '__main__':" and of another comparison
NameGuard == [kind |-> "Compare", left |-> Name("__name__")]

OtherTest == [kind |-> "Name", id |-> "DEBUG"]

MainCall == Expr(CallNode(Name("main")))

\* number of source lines a statement takes: compound statements take one
\* line per header and per nested statement
RECURSIVE Lines(_)
RECURSIVE LinesOf(_)
Lines(node) ==
    IF node.kind = "If" THEN 1 + LinesOf(node.body)
    ELSE IF node.kind = "TryExcept"
         THEN 1 + LinesOf(node.body) + 1 + LinesOf(node.handlers[1].body)
    ELSE IF node.kind = "FunctionDef" THEN node.span
    ELSE 1
LinesOf(body) == IF body = <<>> THEN 0 ELSE Lines(Head(body)) + LinesOf(Tail(body))

\* ast.parse numbers the statements: lineno of every node of a body whose
\* first statement is on line first
RECURSIVE Number(_, _)
Number(body, first) ==
    IF body = <<>> THEN <<>>
    ELSE LET node == Head(body)
             here == IF node.kind = "If"
                     THEN [node EXCEPT !.lineno = first,
                                       !.body = Number(node.body, first + 1)]
                     ELSE IF node.kind = "TryExcept"
                     THEN [node EXCEPT
                             !.lineno = first,
                             !.body = Number(node.body, first + 1),
                             !.handlers = <<[body |->
                                 Number(node.handlers[1].body,
                                        first + 2 + LinesOf(node.body))]>>]
                     ELSE [node EXCEPT !.lineno = first]
         IN  <<here>> \o Number(Tail(body), first + Lines(node))

(***************************************************************************)
(* File names are sequences of characters                                  *)
(***************************************************************************)
StartsWith(cs, prefix) ==
    Len(cs) >= Len(prefix) /\ SubSeq(cs, 1, Len(prefix)) = prefix

EndsWith(cs, suffix) ==
    Len(cs) >= Len(suffix) /\ SubSeq(cs, Len(cs) - Len(suffix) + 1, Len(cs)) = suffix

\* os.path.splitext(basename): the extension starts at the last dot, unless
\* only dots precede it
splitext(cs) ==
    LET dots == {i \in 1..Len(cs) : cs[i] = "."}
        last == CHOOSE i \in dots : \A j \in dots : j <= i
    IN  IF dots = {} \/ \A j \in 1..(last - 1) : cs[j] = "."
        THEN <<cs, <<>>>>
        ELSE <<SubSeq(cs, 1, last - 1), SubSeq(cs, last, Len(cs))>>

\* fnmatch(basename, pat) for the patterns of BLACKLIST_PATTERNS, each of
\* which has its one '*' first or last
fnmatch(cs, pat) ==
    IF pat[1] = "*" THEN EndsWith(cs, Tail(pat))
    ELSE StartsWith(cs, SubSeq(pat, 1, Len(pat) - 1))

BLACKLIST_DIRS == {".git", "test", ".github"}

BLACKLIST_PATTERNS == <<<<".", "g", "i", "t", "*">>, <<"*", ".", "p", "y", "c">>, <<"*", ".", "p", "y", "o">>, <<".", "*">>, <<"*", ".", "m", "d">>, <<"*", ".", "t", "x", "t">>>>

BLACKLIST_FILES == {<<".", "g", "i", "t">>,
                    <<".", "g", "i", "t", "i", "g", "n", "o", "r", "e">>,
                    <<".", "t", "r", "a", "v", "i", "s", ".", "y", "m", "l">>,
                    <<".", "g", "i", "t", "a", "t", "t", "r", "i", "b", "u", "t", "e", "s">>,
                    <<".", "g", "i", "t", "m", "o", "d", "u", "l", "e", "s">>,
                    <<"C", "O", "P", "Y", "I", "N", "G">>,
                    <<"_", "_", "i", "n", "i", "t", "_", "_", ".", "p", "y">>,
                    <<"V", "E", "R", "S", "I", "O", "N">>,
                    <<"t", "e", "s", "t", "-", "d", "o", "c", "s", ".", "s", "h">>}

\* ansible.utils.module_docs.BLACKLIST_MODULES
BLACKLIST_MODULES == {<<"a", "s", "y", "n", "c", "_", "w", "r", "a", "p", "p", "e", "r">>, <<"a", "c", "c", "e", "l", "e", "r", "a", "t", "e">>, <<"f", "i", "r", "e", "b", "a", "l", "l">>}

BLACKLIST == BLACKLIST_FILES \cup BLACKLIST_MODULES

BOTTOM_IMPORTS == {"ansible.module_utils.basic", "ansible.module_utils.urls",
                   "ansible.module_utils.facts", "ansible.module_utils.splitter",
                   "ansible.module_utils.known_hosts", "ansible.module_utils.rax"}

BOTTOM_IMPORTS_BLACKLIST == {<<"c", "o", "m", "m", "a", "n", "d", ".", "p", "y">>}

PS_DOC_BLACKLIST == {<<"s", "l", "u", "r", "p", ".", "p", "s", "1">>, <<"s", "e", "t", "u", "p", ".", "p", "s", "1">>}

\* ansible.executor.module_common.REPLACER_WINDOWS
REPLACER_WINDOWS == "# POWERSHELL_COMMON"

\* the modules whose dotted name starts with 'ansible.module_utils.'
ModuleUtilsFamily == BOTTOM_IMPORTS \cup {"ansible.module_utils.ec2"}

\* child.module.startswith('ansible.module_utils.')
IsModuleUtils(module) == module \in ModuleUtilsFamily

\* target.id.lower().startswith('has_')
IsHasFlag(id) == id \in {"HAS_LIB", "has_lib"}

\* names exported by ansible.module_utils.basic (dir() without '_' names), in
\* the order in which a set of them is iterated
BasicReservedOrder == <<"AnsibleModule", "get_platform", "json", "os">>

BASIC_RESERVED == {BasicReservedOrder[i] : i \in 1..Len(BasicReservedOrder)}

(***************************************************************************)
(* Validator: the report of one object                                     *)
(***************************************************************************)
\* Validator.reset; calls and raised are the record of the run: the checks
\* validate() called, in order, and the exception that ended it ("" if none)
reset(self) == [self EXCEPT !.errors = <<>>, !.warnings = <<>>, !.traces = <<>>,
                            !.calls = <<>>, !.raised = ""]

AddError(self, msg) == [self EXCEPT !.errors = Append(@, msg)]

AddWarning(self, msg) == [self EXCEPT !.warnings = Append(@, msg)]

AddTrace(self, exc) == [self EXCEPT !.traces = Append(@, exc)]

Called(self, check) == [self EXCEPT !.calls = Append(@, check)]

Raise(self, exc) == [self EXCEPT !.raised = exc]

\* statement sequencing: nothing runs after an exception was raised
Then(self, Check(_)) == IF self.raised # "" THEN self ELSE Check(self)

\* report() with the commented-out ret.append(1) of the warnings loop restored
report_counting_warnings(self, warnings) ==
    Len(self.errors) + (IF warnings THEN Len(self.warnings) ELSE 0)

\* Validator.report(warnings): ret gets one entry per error, none per
\* warning, and its length is returned
report(self, warnings) == Len(self.errors)

\* ModuleValidator.__init__: file is what the path holds (its text, what
\* ast.parse makes of it) and what the environment answers about it
ModuleValidator(path, file) ==
    reset([path |-> path,
           basename |-> path.base,
           name |-> splitext(path.base)[1],
           _python_module_override |-> FALSE,
           text |-> file.text,
           length |-> file.text.lines,
           ast |-> file.ast,
           env |-> file.env,
           errors |-> <<>>, warnings |-> <<>>, traces |-> <<>>,
           calls |-> <<>>, raised |-> ""])

_python_module(self) ==
    EndsWith(self.path.base, <<".", "p", "y">>) \/ self._python_module_override

_powershell_module(self) == EndsWith(self.path.base, <<".", "p", "s", "1">>)

_just_docs(self) ==
    IF ~HasAttr(self.ast, "body") THEN FALSE
    ELSE \A i \in 1..Len(self.ast.body) : self.ast.body[i].kind = "Assign"

_is_bottom_import_blacklisted(self) == self.basename \in BOTTOM_IMPORTS_BLACKLIST

\* module_loader.has_plugin(self.name) is an answer of the environment
_is_new_module(self) == ~self.env.has_plugin

_check_interpreter(self, powershell) ==
    LET s == Called(self, "_check_interpreter")
    IN  IF powershell
        THEN IF s.text.startswith # "#!powershell\n"
             THEN AddError(s, "Interpreter line is not \"#!powershell\"")
             ELSE s
        ELSE IF s.text.startswith # "#!/usr/bin/python"
             THEN AddError(s, "Interpreter line is not \"#!/usr/bin/python\"")
             ELSE s

_check_for_sys_exit(self) ==
    LET s == Called(self, "_check_for_sys_exit")
    IN  IF "sys.exit(" \in s.text.contains
        THEN AddError(s, "sys.exit() call found. Should be exit_json/fail_json")
        ELSE s

_check_for_gpl3_header(self) ==
    LET s == Called(self, "_check_for_gpl3_header")
    IN  IF "GNU General Public License" \notin s.text.contains
           /\ "version 3" \notin s.text.contains
        THEN AddError(s, "GPLv3 license header not found")
        ELSE s

\* text.tabs lists, in line order, the lines that hold a tab: the zero-based
\* line number and the index of the line's first tab.  INDENT_REGEX matches
\* every line (it matches the empty string), so only '\t' in line decides.
RECURSIVE TabErrors(_)
TabErrors(tabs) ==
    IF tabs = <<>> THEN <<>>
    ELSE <<"indentation contains tabs. line " \o IntText(Head(tabs).line_no + 1)
           \o " column " \o IntText(Head(tabs).index)>> \o TabErrors(Tail(tabs))

_check_for_tabs(self) ==
    LET s == Called(self, "_check_for_tabs")
    IN  [s EXCEPT !.errors = @ \o TabErrors(s.text.tabs)]

\* the messages one Import statement earns for importing module
RECURSIVE ImportHits(_, _, _)
ImportHits(names, module, msg) ==
    IF names = <<>> THEN <<>>
    ELSE (IF Head(names).name = module THEN <<msg>> ELSE <<>>)
         \o ImportHits(Tail(names), module, msg)

JsonWarning == "JSON import found, already provided by ansible.module_utils.basic"

RECURSIVE JsonWarnings(_)
JsonWarnings(body) ==
    IF body = <<>> THEN <<>>
    ELSE (IF Head(body).kind = "Import"
          THEN ImportHits(Head(body).names, "json", JsonWarning)
          ELSE <<>>) \o JsonWarnings(Tail(body))

_find_json_import(self) ==
    LET s == Called(self, "_find_json_import")
    IN  [s EXCEPT !.warnings = @ \o JsonWarnings(s.ast.body)]

\* bodies = child.body; for handler in child.handlers:
\*     bodies.extend(handler.body)
\* bodies is child.body itself, so the try body of the tree grows
RECURSIVE HandlerBodies(_)
HandlerBodies(handlers) ==
    IF handlers = <<>> THEN <<>>
    ELSE Head(handlers).body \o HandlerBodies(Tail(handlers))

ExtendTryBody(child) == [child EXCEPT !.body = @ \o HandlerBodies(child.handlers)]

ExtendTryBodies(body) ==
    [i \in 1..Len(body) |-> IF body[i].kind = "TryExcept" THEN ExtendTryBody(body[i])
                            ELSE body[i]]

RequestsError == "requests import found, should use ansible.module_utils.urls instead"

\* the errors of _find_requests_import over a body whose try bodies have
\* been extended
RECURSIVE RequestsErrors(_, _)
RequestsErrors(body, nested) ==
    IF body = <<>> THEN <<>>
    ELSE LET child == Head(body)
         IN  (IF child.kind = "Import"
              THEN ImportHits(child.names, "requests", RequestsError)
              ELSE IF child.kind = "TryExcept" /\ ~nested
              THEN RequestsErrors(child.body, TRUE)
              ELSE <<>>) \o RequestsErrors(Tail(body), nested)

_find_requests_import(self) ==
    LET s == Called(self, "_find_requests_import")
        body == ExtendTryBodies(s.ast.body)
    IN  [s EXCEPT !.ast.body = body, !.errors = @ \o RequestsErrors(body, FALSE)]

\* child.test.left.id == '__name__', with the AttributeError caught
IsNameGuard(child) ==
    /\ HasAttr(child.test, "left")
    /\ HasAttr(child.test.left, "id")
    /\ child.test.left.id = "__name__"

RECURSIVE IfBodies(_)
IfBodies(body) ==
    IF body = <<>> THEN <<>>
    ELSE (IF Head(body).kind = "If" /\ IsNameGuard(Head(body)) THEN Head(body).body
          ELSE <<>>) \o IfBodies(Tail(body))

IsMainCall(child) ==
    /\ child.kind = "Expr"
    /\ child.value.kind = "Call"
    /\ child.value.func.kind = "Name"
    /\ child.value.func.id = "main"

\* the loop over bodies: lineno is that of the last call found (0 stands
\* for False), and every call above the last two lines earns an error
RECURSIVE MainCallScan(_, _, _)
MainCallScan(bodies, length, acc) ==
    IF bodies = <<>> THEN acc
    ELSE LET child == Head(bodies)
         IN  IF IsMainCall(child)
             THEN MainCallScan(Tail(bodies), length,
                      [lineno |-> child.lineno,
                       errors |-> IF child.lineno < length - 1
                                  THEN Append(acc.errors, "Call to main() not the last line")
                                  ELSE acc.errors])
             ELSE MainCallScan(Tail(bodies), length, acc)

\* bodies = self.ast.body; bodies.extend(if_bodies): bodies is the module
\* body itself, so the tree keeps the statements of the guards at top level
_find_main_call(self) ==
    LET s == Called(self, "_find_main_call")
        bodies == s.ast.body \o IfBodies(s.ast.body)
        scan == MainCallScan(bodies, s.length, [lineno |-> 0, errors |-> <<>>])
        found == [s EXCEPT !.ast.body = bodies, !.errors = @ \o scan.errors]
    IN  [self |-> IF scan.lineno = 0 THEN AddError(found, "Did not find a call to main")
                  ELSE found,
         ret |-> scan.lineno]

\* the errors of the loop over child.names
RECURSIVE StarErrors(_, _)
StarErrors(names, module) ==
    IF names = <<>> THEN <<>>
    ELSE (IF Head(names).asname # "" \/ Head(names).name # "*"
          THEN <<module \o ": did not import \"*\"">>
          ELSE <<>>) \o StarErrors(Tail(names), module)

\* one pass of the loop of _find_module_utils over a child that is an
\* ImportFrom of the module_utils family
ModuleUtilsErrors(self, child, main) ==
    (IF child.module.s \in BOTTOM_IMPORTS
        /\ child.lineno < main - 10 /\ ~_is_bottom_import_blacklisted(self)
     THEN <<child.module.s \o " import not near call to main()">>
     ELSE <<>>)
    \o (IF child.names = <<>> THEN <<child.module.s \o ": not a \"from\" import\"">>
        ELSE <<>>)
    \o StarErrors(child.names, child.module.s)
    \o (IF child.names = <<>> THEN <<child.module.s \o ": did not import \"*\"">>
        ELSE <<>>)

\* child.module of a relative import is None, and None.startswith raises
RECURSIVE ModuleUtilsScan(_, _, _, _)
ModuleUtilsScan(self, body, main, acc) ==
    IF body = <<>> THEN acc
    ELSE LET child == Head(body)
         IN  IF child.kind # "ImportFrom"
             THEN ModuleUtilsScan(self, Tail(body), main, acc)
             ELSE IF ~HasAttr(child.module, "s")
             THEN [acc EXCEPT !.raised = "AttributeError"]
             ELSE IF ~IsModuleUtils(child.module.s)
             THEN ModuleUtilsScan(self, Tail(body), main, acc)
             ELSE ModuleUtilsScan(self, Tail(body), main,
                      [acc EXCEPT !.errors = @ \o ModuleUtilsErrors(self, child, main),
                                  !.linenos = Append(@, child.lineno)])

_find_module_utils(self, main) ==
    LET s == Called(self, "_find_module_utils")
        scan == ModuleUtilsScan(s, s.ast.body, main,
                                [errors |-> <<>>, linenos |-> <<>>, raised |-> ""])
        after == [s EXCEPT !.errors = @ \o scan.errors]
    IN  IF scan.raised # "" THEN Raise(after, scan.raised)
        ELSE IF scan.linenos = <<>>
        THEN AddError(after, "Did not find a module_utils import")
        ELSE after

HasWarning == "Found Try/Except block without HAS_ assginment"

\* the loop of _find_has_import over the statements of one extended try
\* body: target.id of a target that is not a Name raises
RECURSIVE HasScan(_, _)
HasScan(bodies, acc) ==
    IF bodies = <<>> THEN acc
    ELSE LET grandchild == Head(bodies)
         IN  IF grandchild.kind = "Import"
             THEN HasScan(Tail(bodies), [acc EXCEPT !.found_import = TRUE])
             ELSE IF grandchild.kind = "Assign"
             THEN IF \E i \in 1..Len(grandchild.targets) :
                        ~HasAttr(grandchild.targets[i], "id")
                  THEN [acc EXCEPT !.raised = "AttributeError"]
                  ELSE HasScan(Tail(bodies),
                           [acc EXCEPT !.found_has = @ \/
                               \E i \in 1..Len(grandchild.targets) :
                                   IsHasFlag(grandchild.targets[i].id)])
             ELSE HasScan(Tail(bodies), acc)

\* the loop over the module body from statement i on
RECURSIVE HasImportLoop(_, _)
HasImportLoop(self, i) ==
    IF i > Len(self.ast.body) THEN self
    ELSE IF self.ast.body[i].kind # "TryExcept" THEN HasImportLoop(self, i + 1)
    ELSE LET child == ExtendTryBody(self.ast.body[i])
             s == [self EXCEPT !.ast.body[i] = child]
             scan == HasScan(child.body, [found_import |-> FALSE, found_has |-> FALSE,
                                          raised |-> ""])
         IN  IF scan.raised # "" THEN Raise(s, scan.raised)
             ELSE IF scan.found_import /\ ~scan.found_has
             THEN HasImportLoop(AddWarning(s, HasWarning), i + 1)
             ELSE HasImportLoop(s, i + 1)

_find_has_import(self) == HasImportLoop(Called(self, "_find_has_import"), 1)

_find_ps_replacers(self) ==
    LET s == Called(self, "_find_ps_replacers")
        s1 == IF "WANT_JSON" \notin s.text.contains
              THEN AddError(s, "WANT_JSON not found in module") ELSE s
    IN  IF REPLACER_WINDOWS \notin s1.text.contains
        THEN AddError(s1, "\"" \o REPLACER_WINDOWS \o "\" not found in module")
        ELSE s1

\* os.path.isfile(py_path) is an answer of the environment
_find_ps_docs_py_file(self) ==
    LET s == Called(self, "_find_ps_docs_py_file")
    IN  IF s.basename \in PS_DOC_BLACKLIST THEN s
        ELSE IF ~s.env.py_isfile THEN AddError(s, "Missing python documentation file")
        ELSE s

\* utils.find_globals: the names the statements of the module define
find_globals(body) ==
    {body[i].name : i \in {j \in 1..Len(body) : body[j].kind = "FunctionDef"}}
    \cup {body[i].targets[1].id :
            i \in {j \in 1..Len(body) : body[j].kind = "Assign"
                                        /\ HasAttr(body[j].targets[1], "id")}}

\* ', '.join(redeclared)
RECURSIVE JoinNames(_, _)
JoinNames(order, names) ==
    IF order = <<>> THEN ""
    ELSE IF Head(order) \notin names THEN JoinNames(Tail(order), names)
    ELSE IF \E i \in 1..Len(Tail(order)) : Tail(order)[i] \in names
    THEN Head(order) \o ", " \o JoinNames(Tail(order), names)
    ELSE Head(order)

_find_redeclarations(self) ==
    LET s == Called(self, "_find_redeclarations")
        redeclared == BASIC_RESERVED \cap find_globals(s.ast.body)
    IN  IF redeclared # {}
        THEN AddWarning(s, "Redeclared basic.py variable or function: "
                           \o JoinNames(BasicReservedOrder, redeclared))
        ELSE s

(***************************************************************************)
(* Documentation blocks                                                    *)
(***************************************************************************)
NoDocs == [DOCUMENTATION |-> [value |-> None, lineno |-> 0],
           EXAMPLES |-> [value |-> None, lineno |-> 0],
           RETURN |-> [value |-> None, lineno |-> 0]]

\* the loop of _get_docs from statement i on: grandchild.id of a target that
\* is not a Name raises, and so does child.value.s of a value that is not a
\* string literal
RECURSIVE GetDocsLoop(_, _, _)
GetDocsLoop(body, i, acc) ==
    IF i > Len(body) THEN acc
    ELSE LET child == body[i]
         IN  IF child.kind # "Assign" THEN GetDocsLoop(body, i + 1, acc)
             ELSE LET grandchild == child.targets[1]
                  IN  IF ~HasAttr(grandchild, "id")
                      THEN [acc EXCEPT !.raised = "AttributeError"]
                      ELSE IF grandchild.id \notin {"DOCUMENTATION", "EXAMPLES", "RETURN"}
                      THEN GetDocsLoop(body, i + 1, acc)
                      ELSE IF ~HasAttr(child.value, "s")
                      THEN [acc EXCEPT !.raised = "AttributeError"]
                      ELSE GetDocsLoop(body, i + 1,
                               [acc EXCEPT !.docs[grandchild.id] =
                                   [value |-> IF grandchild.id = "EXAMPLES"
                                              THEN Slice1(child.value.s)
                                              ELSE child.value.s,
                                    lineno |-> child.lineno]])

_get_docs(self) == GetDocsLoop(self.ast.body, 1, [docs |-> NoDocs, raised |-> ""])

\* schema.doc_schema(doc): the violations it raises, as (path, message)
doc_schema(doc) ==
    IF doc.type # "dict"
    THEN <<[path |-> "", error_message |-> "expected a dictionary"]>>
    ELSE IF "description" \notin DOMAIN doc.items
    THEN <<[path |-> "description", error_message |-> "required key not provided"]>>
    ELSE <<>>

\* schema.option_schema(option), with error.path[:0] = ['options', key]
option_schema(key, option) ==
    IF "description" \notin DOMAIN option
    THEN <<[path |-> "options." \o key \o ".description",
            error_message |-> "required key not provided"]>>
    ELSE <<>>

\* the order in which iteritems() yields the options of a document
OptionOrder == <<"name", "state">>

RECURSIVE OptionViolations(_, _)
OptionViolations(order, options) ==
    IF order = <<>> THEN <<>>
    ELSE (IF Head(order) \in DOMAIN options
          THEN option_schema(Head(order), options[Head(order)])
          ELSE <<>>) \o OptionViolations(Tail(order), options)

SchemaErrors(violations) ==
    [i \in 1..Len(violations) |->
        "DOCUMENTATION." \o violations[i].path \o ": " \o violations[i].error_message]

\* doc.get of a document that is not a mapping raises before any violation
\* is appended to self.errors
_validate_docs_schema(self, doc) ==
    LET s == Called(self, "_validate_docs_schema")
    IN  IF doc.type # "dict" THEN Raise(s, "AttributeError")
        ELSE [s EXCEPT !.errors = @ \o SchemaErrors(
                  doc_schema(doc)
                  \o OptionViolations(OptionOrder, DictGet(doc.items, "options", EmptyDict)))]

(***************************************************************************)
(* Version policy                                                          *)
(***************************************************************************)
\* _check_version_added() without the second comparison of line 453: only a
\* tag older than the release line is a mismatch
_check_version_added_older_only(self, doc) ==
    LET s == Called(self, "_check_version_added")
        raw == DictGet(doc.items, "version_added", <<"0", ".", "0">>)
        version_added == StrictVersion(raw)
    IN  IF ~_is_new_module(s) THEN s
        ELSE IF ~version_added.ok
        THEN AddError(s, "version_added is not a valid version number: " \o Repr(raw))
        ELSE IF VersionCmp(version_added, strict_ansible_version) < 0
        THEN AddError(s, "version_added should be " \o Text(should_be)
                         \o ". Currently " \o VersionStr(version_added))
        ELSE s

_check_version_added(self, doc) ==
    LET s == Called(self, "_check_version_added")
        raw == DictGet(doc.items, "version_added", <<"0", ".", "0">>)
        version_added == StrictVersion(raw)
    IN  IF ~_is_new_module(s) THEN s
        ELSE IF ~version_added.ok
        THEN AddError(s, "version_added is not a valid version number: " \o Repr(raw))
        ELSE IF VersionCmp(version_added, strict_ansible_version) < 0
                \/ VersionCmp(strict_ansible_version, version_added) < 0
        THEN AddError(s, "version_added should be " \o Text(should_be)
                         \o ". Currently " \o VersionStr(version_added))
        ELSE s

\* the pass of the loop with new decided by the presence of the option in
\* existing_options instead of by bool(existing_options.get(option))
NewArgErrors_by_presence(option, details, existing_options, mod_version_added) ==
    LET new == option \notin DOMAIN existing_options
        raw == DictGet(details, "version_added", <<"0", ".", "0">>)
        version_added == StrictVersion(raw)
    IN  IF ~new THEN <<>>
        ELSE IF ~version_added.ok
        THEN <<"version_added for new option (" \o option
               \o ") is not a valid version number: " \o Repr(raw)>>
        ELSE IF VersionCmp(strict_ansible_version, mod_version_added) # 0
                /\ (VersionCmp(version_added, strict_ansible_version) < 0
                    \/ VersionCmp(strict_ansible_version, version_added) < 0)
        THEN <<"version_added for new option (" \o option \o ") should be "
               \o Text(should_be) \o ". Currently " \o VersionStr(version_added)>>
        ELSE <<>>

\* the pass of the loop without the comparison of strict_ansible_version with
\* mod_version_added of line 505
NewArgErrors_without_baseline(option, details, existing_options, mod_version_added) ==
    LET new == ~(option \in DOMAIN existing_options
                 /\ DOMAIN existing_options[option] # {})
        raw == DictGet(details, "version_added", <<"0", ".", "0">>)
        version_added == StrictVersion(raw)
    IN  IF ~new THEN <<>>
        ELSE IF ~version_added.ok
        THEN <<"version_added for new option (" \o option
               \o ") is not a valid version number: " \o Repr(raw)>>
        ELSE IF VersionCmp(version_added, strict_ansible_version) < 0
                \/ VersionCmp(strict_ansible_version, version_added) < 0
        THEN <<"version_added for new option (" \o option \o ") should be "
               \o Text(should_be) \o ". Currently " \o VersionStr(version_added)>>
        ELSE <<>>

\* one pass of the loop over the options of the document
NewArgErrors(option, details, existing_options, mod_version_added) ==
    LET new == ~(option \in DOMAIN existing_options
                 /\ DOMAIN existing_options[option] # {})
        raw == DictGet(details, "version_added", <<"0", ".", "0">>)
        version_added == StrictVersion(raw)
    IN  IF ~new THEN <<>>
        ELSE IF ~version_added.ok
        THEN <<"version_added for new option (" \o option
               \o ") is not a valid version number: " \o Repr(raw)>>
        ELSE IF VersionCmp(strict_ansible_version, mod_version_added) # 0
                /\ (VersionCmp(version_added, strict_ansible_version) < 0
                    \/ VersionCmp(strict_ansible_version, version_added) < 0)
        THEN <<"version_added for new option (" \o option \o ") should be "
               \o Text(should_be) \o ". Currently " \o VersionStr(version_added)>>
        ELSE <<>>

RECURSIVE NewArgsLoop(_, _, _, _)
NewArgsLoop(order, options, existing_options, mod_version_added) ==
    IF order = <<>> THEN <<>>
    ELSE (IF Head(order) \in DOMAIN options
          THEN NewArgErrors(Head(order), options[Head(order)], existing_options,
                            mod_version_added)
          ELSE <<>>)
         \o NewArgsLoop(Tail(order), options, existing_options, mod_version_added)

\* env.existing is what module_loader.find_plugin and get_docstring give
\* for the published module: the exception raised ("" if none) and the
\* published document
_check_for_new_args(self, doc) ==
    LET s == Called(self, "_check_for_new_args")
        existing == s.env.existing
        existing_version == StrictVersion(
            DictGet(existing.doc, "version_added", <<"0", ".", "0">>))
        mod_version_added == IF existing_version.ok THEN existing_version
                             ELSE StrictVersion(<<"0", ".", "0">>)
    IN  IF _is_new_module(s) THEN s
        ELSE IF existing.raised = "AssertionError"
        THEN IF "extends_documentation_fragment" \notin DOMAIN doc.items
             THEN Raise(s, "KeyError")
             ELSE AddError(s, "Existing DOCUMENTATION fragment missing: "
                              \o doc.items.extends_documentation_fragment)
        ELSE IF existing.raised # ""
        THEN AddError(AddTrace(s, existing.raised),
                      "Unknown existing DOCUMENTATION error, see TRACE")
        ELSE [s EXCEPT !.errors = @ \o
                 NewArgsLoop(OptionOrder, DictGet(doc.items, "options", EmptyDict),
                             DictGet(existing.doc, "options", EmptyDict),
                             mod_version_added)]

(***************************************************************************)
(* _validate_docs                                                          *)
(***************************************************************************)
\* the else branch of the try: the document was loaded.  env.get_docstring
\* is the exception ansible's get_docstring raises for the file ("" if none).
ValidateLoadedDoc(self, doc) ==
    LET s0 == Called(self, "get_docstring")
        s1 == IF s0.env.get_docstring = "AssertionError"
              THEN IF doc.type # "dict" THEN Raise(s0, "TypeError")
                   ELSE IF "extends_documentation_fragment" \notin DOMAIN doc.items
                   THEN Raise(s0, "KeyError")
                   ELSE AddError(s0, "DOCUMENTATION fragment missing: "
                                     \o doc.items.extends_documentation_fragment)
              ELSE IF s0.env.get_docstring # ""
              THEN AddError(AddTrace(s0, s0.env.get_docstring),
                            "Unknown DOCUMENTATION error, see TRACE")
              ELSE s0
        Schema(s) == _validate_docs_schema(s, doc)
        Version(s) == _check_version_added(s, doc)
        NewArgs(s) == _check_for_new_args(s, doc)
    IN  Then(Then(Then(s1, Schema), Version), NewArgs)

\* the EXAMPLES and RETURN part of _validate_docs
ValidateExamplesReturn(self, doc_info) ==
    LET s0 == Called(self, "examples_return")
        s1 == IF ~Truthy(doc_info.EXAMPLES.value)
              THEN AddError(s0, "No EXAMPLES provided") ELSE s0
        ret == doc_info.RETURN.value
    IN  IF ~Truthy(ret)
        THEN IF _is_new_module(s1) THEN AddError(s1, "No RETURN documentation provided")
             ELSE AddWarning(s1, "No RETURN provided")
        ELSE IF ret.load.type = "YAMLError"
        THEN AddTrace(AddError(s1, "RETURN is not valid YAML. Line "
                          \o IntText(ret.load.line + doc_info.RETURN.lineno - 1 + 1)
                          \o " column " \o IntText(ret.load.column + 1)),
                      "YAMLError")
        ELSE s1

_validate_docs(self) ==
    LET s == Called(self, "_validate_docs")
        got == _get_docs(s)
        doc_info == got.docs
        value == doc_info.DOCUMENTATION.value
        ExamplesReturn(t) == ValidateExamplesReturn(t, doc_info)
    IN  IF got.raised # "" THEN Raise(s, got.raised)
        ELSE IF value = None
        THEN ExamplesReturn(AddError(s, "No DOCUMENTATION provided"))
        ELSE IF value.load.type = "YAMLError"
        THEN ExamplesReturn(
                 AddError(AddTrace(s, "YAMLError"),
                          "DOCUMENTATION is not valid YAML. Line "
                          \o IntText(value.load.line + doc_info.DOCUMENTATION.lineno - 1 + 1)
                          \o " column " \o IntText(value.load.column + 1)))
        ELSE Then(ValidateLoadedDoc(s, value.load), ExamplesReturn)

(***************************************************************************)
(* ModuleValidator.validate and PythonPackageValidator                     *)
(***************************************************************************)
IsBlacklisted(self) ==
    \/ {self.basename, self.name} \cap BLACKLIST # {}
    \/ \E i \in 1..Len(BLACKLIST_PATTERNS) : fnmatch(self.basename, BLACKLIST_PATTERNS[i])

ExtensionError ==
    "Official Ansible modules must have a .py extension for python modules or a .ps1 for powershell modules"

\* the checks of a Python module that is not made of assignments only
RuleChecks(self) ==
    LET main == _find_main_call(
                    _find_requests_import(_find_json_import(_check_for_sys_exit(self))))
        ModuleUtils(s) == _find_module_utils(s, main.ret)
    IN  Then(Then(Then(Then(main.self, ModuleUtils), _find_has_import),
                  _check_for_tabs), _find_redeclarations)

\* the part of validate() after the syntax check
ValidateParsed(self) ==
    LET Docs(s) == IF _python_module(s) THEN _validate_docs(s) ELSE s
        Rules(s) == IF _python_module(s) /\ ~_just_docs(s) THEN RuleChecks(s) ELSE s
        Powershell(s) == IF _powershell_module(s)
                         THEN _find_ps_docs_py_file(_find_ps_replacers(s)) ELSE s
        Interpreter(s) == IF ~_just_docs(s)
                          THEN _check_interpreter(s, _powershell_module(s)) ELSE s
    IN  Then(Then(Then(Then(Docs(self), Rules), Powershell), _check_for_gpl3_header),
             Interpreter)

\* validate() running the text checks after a syntax error instead of returning
validate_text_checks_after_syntax_error(self) ==
    LET s0 == reset(self)
        s1 == IF ~_python_module(s0) /\ ~_powershell_module(s0)
              THEN [AddError(s0, ExtensionError) EXCEPT !._python_module_override = TRUE]
              ELSE s0
    IN  IF IsBlacklisted(s0) THEN s0
        ELSE IF _python_module(s1) /\ s1.ast = None
        THEN _check_interpreter(
                 _check_for_gpl3_header(
                     AddTrace(AddError(s1, "Python SyntaxError while parsing module"),
                              "SyntaxError")), FALSE)
        ELSE ValidateParsed(s1)

validate(self) ==
    LET s0 == reset(self)
        s1 == IF ~_python_module(s0) /\ ~_powershell_module(s0)
              THEN [AddError(s0, ExtensionError) EXCEPT !._python_module_override = TRUE]
              ELSE s0
    IN  IF IsBlacklisted(s0) THEN s0
        ELSE IF _python_module(s1) /\ s1.ast = None
        THEN AddTrace(AddError(s1, "Python SyntaxError while parsing module"),
                      "SyntaxError")
        ELSE ValidateParsed(s1)

\* PythonPackageValidator: os.path.exists(init_file) is an answer of the
\* environment
PythonPackageValidator(path, init_exists) ==
    reset([path |-> path, basename |-> path.base, init_exists |-> init_exists,
           errors |-> <<>>, warnings |-> <<>>, traces |-> <<>>,
           calls |-> <<>>, raised |-> ""])

package_validate(self) ==
    LET s == reset(self)
    IN  IF ~s.init_exists
        THEN AddError(s, "Ansible module subdirectories must contain an __init__.py")
        ELSE s

(***************************************************************************)
(* Bounds of the model                                                     *)
(***************************************************************************)
\* statements of a module after its documentation blocks
MaxStmts == 2
\* lines (comments, blank lines) after the last statement
MaxTrailing == 2
\* calls of validate() on one validator
MaxRuns == 2
\* depth of the directories below the root of a run
MaxDepth == 2
\* entries (files and directories) the directories of a run list in all
MaxEntries == 4

(***************************************************************************)
(* The files and the environment a run may meet                            *)
(***************************************************************************)
V23 == <<"2", ".", "3">>
V22 == <<"2", ".", "2">>
V24 == <<"2", ".", "4">>
V230 == <<"2", ".", "3", ".", "0">>
V23a1 == <<"2", ".", "3", "a", "1">>
Devel == <<"d", "e", "v", "e", "l">>

\* values of a version_added key
Tags == {V23, V22, V24, V230, V23a1, Devel}

ModPy == <<"m", "o", "d", ".", "p", "y">>
WinPs1 == <<"w", "i", "n", ".", "p", "s", "1">>
NoExt == <<"m", "o", "d">>
ReadmeMd == <<"R", "E", "A", "D", "M", "E", ".", "m", "d">>
CommandPy == <<"c", "o", "m", "m", "a", "n", "d", ".", "p", "y">>
SetupPs1 == <<"s", "e", "t", "u", "p", ".", "p", "s", "1">>
AsyncWrapperPy == <<"a", "s", "y", "n", "c", "_", "w", "r", "a", "p", "p", "e", "r", ".", "p", "y">>

FileNames == <<ModPy, WinPs1, NoExt, ReadmeMd, CommandPy, SetupPs1, AsyncWrapperPy>>

\* records with and without an optional key
WithKey(d, key, values) == {[k \in DOMAIN d \cup {key} |-> IF k = key THEN v ELSE d[k]] :
                            v \in values}

Optional(ds, key, values) == ds \cup UNION {WithKey(d, key, values) : d \in ds}

\* the details of an option
OptionDetails == Optional({[description |-> "text"]}, "version_added", Tags)

\* the options mapping of a document: "name" untagged or absent, "state"
\* with any details or absent
OptionMaps ==
    Optional(Optional({EmptyDict}, "name", {[description |-> "text"]}),
             "state", OptionDetails \cup {EmptyDict})

\* the documents a DOCUMENTATION block may hold
Documents ==
    {Dict(items) : items \in
        Optional({[description |-> "text", options |-> o] : o \in OptionMaps},
                 "version_added", Tags)}
    \cup {Dict([version_added |-> V23, options |-> EmptyDict]),
          Dict([description |-> "text", version_added |-> V23]),
          Dict([description |-> "text", version_added |-> V23, options |-> EmptyDict,
                extends_documentation_fragment |-> "files"])}

GoodDocument ==
    Dict([description |-> "text", version_added |-> V23,
          options |-> [name |-> [description |-> "text"]]])

\* the published module: what find_plugin and get_docstring give for it
Published ==
    {[raised |-> "", doc |-> d] : d \in
        Optional({[options |-> o] : o \in
                    {EmptyDict, [name |-> [description |-> "text"]],
                     [name |-> [description |-> "text"], state |-> [description |-> "text"]],
                     [state |-> EmptyDict]}},
                 "version_added", {V23, V22, Devel})}
    \cup {[raised |-> "AssertionError", doc |-> EmptyDict],
          [raised |-> "Exception", doc |-> EmptyDict]}

NotPublished == [raised |-> "Exception", doc |-> EmptyDict]

\* the environment of a file: the registry, get_docstring on the file, and
\* the documentation file next to a PowerShell module
Environments ==
    {[has_plugin |-> FALSE, existing |-> NotPublished, get_docstring |-> "",
      py_isfile |-> TRUE]}
    \cup {[has_plugin |-> TRUE, existing |-> e, get_docstring |-> "", py_isfile |-> TRUE] :
            e \in Published}

NewModule == [has_plugin |-> FALSE, existing |-> NotPublished, get_docstring |-> "",
              py_isfile |-> TRUE]

\* string literals of the documentation blocks
GoodStr == Str(20, Dict(EmptyDict))

DocValues ==
    {StrNode(Str(20, d)) : d \in Documents}
    \cup {StrNode(Str(20, YAMLError(1, 4))), StrNode(Str(0, None)),
          StrNode(Str(5, [type |-> "str"])), CallNode(Name("load"))}

BlockValues ==
    {StrNode(GoodStr), StrNode(Str(1, Dict(EmptyDict))), StrNode(Str(0, None)),
     StrNode(Str(20, YAMLError(2, 0))), NumNode}

\* the statements that hold the documentation blocks; Absent leaves one out
Absent == [kind |-> "Absent"]

Block(name, value) == IF value = Absent THEN <<>> ELSE <<Assign(Name(name), value)>>

DocBlocks(doc, examples, return) ==
    Block("DOCUMENTATION", doc) \o Block("EXAMPLES", examples) \o Block("RETURN", return)

GoodBlocks == DocBlocks(StrNode(Str(20, GoodDocument)), StrNode(GoodStr), StrNode(GoodStr))

Basic == ModuleName("ansible.module_utils.basic")

\* the statements a module is made of
Statements ==
    {Import("json"), Import("requests"),
     ImportFrom(Basic, "*"), ImportFrom(ModuleName("os.path"), "join"),
     ImportFrom(None, "helpers"),
     MainCall, Expr(CallNode(Attribute("run"))),
     If(NameGuard, <<MainCall>>), If(NameGuard, <<Import("json"), MainCall>>),
     If(OtherTest, <<MainCall>>),
     TryExcept(<<Import("lib")>>, <<Assign(Name("HAS_LIB"), NumNode)>>),
     TryExcept(<<Import("lib")>>, <<Import("requests")>>),
     TryExcept(<<Import("lib")>>, <<Assign(Attribute("found"), NumNode)>>),
     FunctionDef("get_platform", 12),
     Assign(Name("RESULT"), NumNode), Assign(Attribute("environ"), NumNode)}

\* the sequences of at most n statements
RECURSIVE Bodies(_)
Bodies(n) == IF n = 0 THEN {<<>>}
             ELSE Bodies(n - 1) \cup {Append(b, st) : b \in Bodies(n - 1), st \in Statements}

GoodBody == <<ImportFrom(Basic, "*"), MainCall>>

\* the text of a file, as far as the checks look at it: how it starts, the
\* markers it contains, its lines with a tab, its number of lines
GoodText == [startswith |-> "#!/usr/bin/python",
             contains |-> {"GNU General Public License", "version 3"},
             tabs |-> <<>>, lines |-> 0]

\* a line that holds a tab: line 2 with a tab after four spaces of
\* indentation, and line 2 with a tab after its first character; indent
\* says whether the tab is part of the indentation of the line
IndentTab == [line_no |-> 1, index |-> 4, indent |-> TRUE]

InlineTab == [line_no |-> 1, index |-> 1, indent |-> FALSE]

Texts ==
    {[startswith |-> st, contains |-> c, tabs |-> t, lines |-> 0] :
        st \in {"#!/usr/bin/python", "#!powershell\n", "#!/bin/sh"},
        c \in {{"GNU General Public License", "version 3"}, {"GNU General Public License"},
               {"version 3"}, {},
               {"GNU General Public License", "version 3", "sys.exit("},
               {"GNU General Public License", "version 3", "WANT_JSON", REPLACER_WINDOWS},
               {"WANT_JSON"}},
        t \in {<<>>, <<IndentTab>>, <<InlineTab>>}}

\* the lines above the first statement: interpreter line and license
HeaderLines == 2

\* a file: its text, the tree ast.parse makes of it (None if it fails), and
\* the environment's answers about it
File(text, body, trailing, parses, env) ==
    [text |-> [text EXCEPT !.lines = HeaderLines + LinesOf(body) + trailing],
     ast |-> IF parses THEN [body |-> Number(body, HeaderLines + 1)] ELSE None,
     env |-> env]

GoodFile == File(GoodText, GoodBlocks \o GoodBody, 0, TRUE, NewModule)

\* files that vary in their statements
BodyFiles ==
    {File(GoodText, blocks \o b, trailing, TRUE, NewModule) :
        blocks \in {GoodBlocks,
                    DocBlocks(Absent, StrNode(GoodStr), StrNode(GoodStr))},
        b \in Bodies(MaxStmts), trailing \in 0..MaxTrailing}

\* files that vary in their documentation and in the registry
DocFiles ==
    {File(GoodText, DocBlocks(d, StrNode(GoodStr), StrNode(GoodStr)) \o GoodBody, 0,
          TRUE, env) : d \in DocValues \cup {Absent}, env \in Environments}
    \cup {File(GoodText, DocBlocks(d, ex, ret) \o GoodBody, 0, TRUE, env) :
            d \in {StrNode(Str(20, GoodDocument)), Absent,
                   StrNode(Str(20, YAMLError(1, 4))), StrNode(Str(5, [type |-> "str"]))},
            ex \in BlockValues \cup {Absent}, ret \in BlockValues \cup {Absent},
            env \in {NewModule,
                     [NewModule EXCEPT !.has_plugin = TRUE,
                                       !.existing = [raised |-> "", doc |-> EmptyDict]]}}
    \cup {File(GoodText, GoodBlocks \o GoodBody, 0, TRUE,
               [NewModule EXCEPT !.get_docstring = g]) : g \in {"AssertionError", "Exception"}}
    \cup {File(GoodText,
               DocBlocks(StrNode(Str(20, Dict([description |-> "text", version_added |-> V23,
                                               options |-> EmptyDict,
                                               extends_documentation_fragment |-> "files"]))),
                         StrNode(GoodStr), StrNode(GoodStr)) \o GoodBody, 0, TRUE,
               [NewModule EXCEPT !.get_docstring = "AssertionError"])}

\* files that vary in their text and in whether they parse
TextFiles ==
    {File(text, body, 0, parses, [NewModule EXCEPT !.py_isfile = isfile]) :
        text \in Texts, body \in {GoodBlocks \o GoodBody, GoodBlocks, <<>>},
        parses \in BOOLEAN, isfile \in BOOLEAN}

Files == BodyFiles \cup DocFiles \cup TextFiles

\* a file and its name: files of every name that vary in their text, and
\* Python modules that vary in their statements and documentation
Inputs ==
    ({FileNames[i] : i \in 1..Len(FileNames)} \X TextFiles)
    \cup ({ModPy} \X (BodyFiles \cup DocFiles))

\* the files met in the directories of a run
WalkFiles ==
    {GoodFile,
     File([GoodText EXCEPT !.contains = {"sys.exit("}], GoodBlocks \o GoodBody, 0, TRUE,
          NewModule),
     File(GoodText, GoodBlocks \o GoodBody, 0, FALSE, NewModule),
     File(GoodText, GoodBlocks \o <<Import("json")>> \o GoodBody, 0, TRUE, NewModule),
     File(GoodText, GoodBlocks \o <<Assign(Attribute("environ"), NumNode)>> \o GoodBody, 0,
          TRUE, NewModule)}

(***************************************************************************)
(* main(): the state of a run                                              *)
(***************************************************************************)
VARIABLES
    args,       \* the parsed command line: mode says what args.modules is
    pc,         \* "main", "walk", "exited" (sys.exit) or "traceback"
    pending,    \* the directories os.walk has still to yield, in its order
    root,       \* the directory os.walk yielded last, relative to args.modules
    dirs,       \* the directory names of root the loop has still to visit
    files,      \* the file names of root the loop has still to visit
    listed,     \* the number of entries listed so far
    exit,       \* the list exit of main()
    status,     \* the exit status of the process, -1 while it runs
    mv,         \* the validator made last
    file,       \* the file mv was made from
    runs,       \* the number of validate() calls on mv
    prev,       \* what mv reported before its last validate() call
    reports,    \* the report of every validator main() reported
    last        \* what the loop did last to which path

vars == <<args, pc, pending, root, dirs, files, listed, exit, status, mv, file, runs,
          prev, reports, last>>

NoValidator == [type |-> "NoValidator"]
NoFile == [type |-> "NoFile"]
NoReport == [type |-> "NoReport"]
Nothing == [op |-> "", kind |-> "", path |-> [dirs |-> <<>>, base |-> <<>>],
            listing |-> <<>>]

\* the names the directories of a run hold, in the order os.listdir gives
DirNames == <<"a", "test">>
WalkNames == <<ModPy>>

\* a path below args.modules: its directories and the characters of its
\* file name (none for a directory)
Path(ds, base) == [dirs |-> ds, base |-> base]

\* the sub-sequences of a sequence
SubSeqs(seq) ==
    {LET In(x) == x \in S IN SelectSeq(seq, In) :
        S \in SUBSET {seq[i] : i \in 1..Len(seq)}}

\* args.exclude.search(path): the pattern is a name, found as a segment
Excluded(path) ==
    /\ args.exclude # ""
    /\ \/ \E i \in 1..Len(path.dirs) : path.dirs[i] = args.exclude
       \/ Text(path.base) = args.exclude

\* basedir taken as the last segment of root instead of the first
basedir_last_segment(r) == IF r = <<>> THEN "" ELSE r[Len(r)]

\* basedir = root[len(args.modules)+1:].split('/', 1)[0]
basedir(r) == IF r = <<>> THEN "" ELSE r[1]

RECURSIVE Sum(_)
Sum(seq) == IF seq = <<>> THEN 0 ELSE Head(seq) + Sum(Tail(seq))

Report(v) == [errors |-> v.errors, warnings |-> v.warnings, traces |-> v.traces]

Reported(v) == [path |-> v.path, errors |-> v.errors, warnings |-> v.warnings]

Init ==
    /\ args \in [mode : {"file", "dir"}, warnings : BOOLEAN, exclude : {"", "a", "mod.py"}]
               \cup {[mode |-> "api", warnings |-> FALSE, exclude |-> ""]}
    /\ pc = IF args.mode = "dir" THEN "walk" ELSE "main"
    /\ pending = IF args.mode = "dir" THEN <<<<>>>> ELSE <<>>
    /\ root = <<>>
    /\ dirs = <<>>
    /\ files = <<>>
    /\ listed = 0
    /\ exit = <<>>
    /\ status = -1
    /\ IF args.mode = "api"
       THEN \E input \in Inputs :
               /\ file = input[2]
               /\ mv = ModuleValidator(Path(<<>>, input[1]), input[2])
       ELSE /\ file = NoFile
            /\ mv = NoValidator
    /\ runs = 0
    /\ prev = NoReport
    /\ reports = <<>>
    /\ last = Nothing

\* lines 616-623: args.modules is a file
SingleFile ==
    /\ pc = "main"
    /\ args.mode = "file"
    /\ \E input \in Inputs :
          /\ LET path == Path(<<>>, input[1])
                 f == input[2]
                 v == validate(ModuleValidator(path, f))
             IN  IF Excluded(path)
                 THEN /\ status' = 0
                      /\ pc' = "exited"
                      /\ last' = [Nothing EXCEPT !.op = "skip", !.kind = "file",
                                                 !.path = path]
                      /\ UNCHANGED <<mv, file, runs, exit, reports>>
                 ELSE /\ mv' = v
                      /\ file' = f
                      /\ runs' = 1
                      /\ last' = [Nothing EXCEPT !.op = "validate", !.kind = "file",
                                                 !.path = path]
                      /\ IF v.raised # ""
                         THEN /\ pc' = "traceback"
                              /\ status' = 1
                              /\ UNCHANGED <<exit, reports>>
                         ELSE /\ exit' = Append(exit, report(v, args.warnings))
                              /\ reports' = Append(reports, Reported(v))
                              /\ status' = Sum(exit')
                              /\ pc' = "exited"
    /\ UNCHANGED <<args, pending, root, dirs, files, listed, prev>>

\* lines 625-628: os.walk lists the next directory and yields it; the loop
\* body passes over it if its first segment is blacklisted
WalkNext ==
    /\ pc = "walk"
    /\ dirs = <<>>
    /\ files = <<>>
    /\ pending # <<>>
    /\ LET r == Head(pending)
       IN  \E ds \in SubSeqs(DirNames), fs \in SubSeqs(WalkNames) :
              /\ Len(r) >= MaxDepth => ds = <<>>
              /\ listed + Len(ds) + Len(fs) <= MaxEntries
              /\ listed' = listed + Len(ds) + Len(fs)
              /\ pending' = [i \in 1..Len(ds) |-> Append(r, ds[i])] \o Tail(pending)
              /\ root' = r
              /\ IF basedir(r) \in BLACKLIST_DIRS
                 THEN /\ dirs' = <<>>
                      /\ files' = <<>>
                      /\ last' = [op |-> "skip", kind |-> "root", path |-> Path(r, <<>>),
                                  listing |-> <<ds, fs>>]
                 ELSE /\ dirs' = ds
                      /\ files' = fs
                      /\ last' = [op |-> "yield", kind |-> "root", path |-> Path(r, <<>>),
                                  listing |-> <<ds, fs>>]
    /\ UNCHANGED <<args, pc, exit, status, mv, file, runs, prev, reports>>

\* lines 629-637: one pass of the loop over dirs
ValidateDir ==
    /\ pc = "walk"
    /\ dirs # <<>>
    /\ dirs' = Tail(dirs)
    /\ LET dirname == Head(dirs)
           path == Path(Append(root, dirname), <<>>)
       IN  IF (root = <<>> /\ dirname \in BLACKLIST_DIRS) \/ Excluded(path)
           THEN /\ last' = [Nothing EXCEPT !.op = "skip", !.kind = "dir", !.path = path]
                /\ UNCHANGED <<mv, file, runs, exit, reports>>
           ELSE \E init_exists \in BOOLEAN :
                   LET pv == package_validate(PythonPackageValidator(path, init_exists))
                   IN  /\ mv' = pv
                       /\ file' = NoFile
                       /\ runs' = 1
                       /\ exit' = Append(exit, report(pv, args.warnings))
                       /\ reports' = Append(reports, Reported(pv))
                       /\ last' = [Nothing EXCEPT !.op = "validate", !.kind = "dir",
                                                  !.path = path]
    /\ UNCHANGED <<args, pc, pending, root, files, listed, status, prev>>

\* lines 639-645: one pass of the loop over files; an exception validate()
\* lets through ends the process with a traceback and status 1
ValidateFile ==
    /\ pc = "walk"
    /\ dirs = <<>>
    /\ files # <<>>
    /\ files' = Tail(files)
    /\ LET path == Path(root, Head(files))
       IN  IF Excluded(path)
           THEN /\ last' = [Nothing EXCEPT !.op = "skip", !.kind = "file", !.path = path]
                /\ UNCHANGED <<pc, status, mv, file, runs, exit, reports>>
           ELSE \E f \in WalkFiles :
                   LET v == validate(ModuleValidator(path, f))
                   IN  /\ mv' = v
                       /\ file' = f
                       /\ runs' = 1
                       /\ last' = [Nothing EXCEPT !.op = "validate", !.kind = "file",
                                                  !.path = path]
                       /\ IF v.raised # ""
                          THEN /\ pc' = "traceback"
                               /\ status' = 1
                               /\ UNCHANGED <<exit, reports>>
                          ELSE /\ exit' = Append(exit, report(v, args.warnings))
                               /\ reports' = Append(reports, Reported(v))
                               /\ UNCHANGED <<pc, status>>
    /\ UNCHANGED <<args, pending, root, dirs, listed, prev>>

\* line 647: sys.exit(sum(exit)) after the walk
Exit ==
    /\ pc = "walk"
    /\ pending = <<>>
    /\ dirs = <<>>
    /\ files = <<>>
    /\ status' = Sum(exit)
    /\ pc' = "exited"
    /\ UNCHANGED <<args, pending, root, dirs, files, listed, exit, mv, file, runs, prev,
                   reports, last>>

\* a caller of the class runs validate() on its validator, again if it likes
Validate ==
    /\ args.mode = "api"
    /\ runs < MaxRuns
    /\ mv.raised = ""
    /\ mv' = validate(mv)
    /\ prev' = IF runs = 0 THEN NoReport ELSE Report(mv)
    /\ runs' = runs + 1
    /\ UNCHANGED <<args, pc, pending, root, dirs, files, listed, exit, status, file,
                   reports, last>>

Next == SingleFile \/ WalkNext \/ ValidateDir \/ ValidateFile \/ Exit \/ Validate

Spec == Init /\ [][Next]_vars

(***************************************************************************)
(* Properties                                                              *)
(***************************************************************************)
IsModuleValidator(v) == HasAttr(v, "ast")

\* mv is a module validator whose validate() has run and was not blacklisted
Validated == IsModuleValidator(mv) /\ runs >= 1 /\ ~IsBlacklisted(mv)

\* the number of entries of seq that are in set
Count(seq, set) == Cardinality({i \in 1..Len(seq) : seq[i] \in set})

\* the checks that read the syntax tree
TreeChecks == {"_validate_docs", "get_docstring", "_validate_docs_schema",
               "_check_version_added", "_check_for_new_args", "examples_return",
               "_find_json_import", "_find_requests_import", "_find_main_call",
               "_find_module_utils", "_find_has_import", "_find_redeclarations"}

CallSet(v) == {v.calls[i] : i \in 1..Len(v.calls)}

C2_ValidateNeverRaises ==
    /\ pc # "traceback"
    /\ IsModuleValidator(mv) => mv.raised = ""

\* mv is a Python module (by extension or by override) that failed to parse
SyntaxFailed == Validated /\ _python_module(mv) /\ mv.ast = None

Assigns(body, name) ==
    \E i \in 1..Len(body) :
        /\ body[i].kind = "Assign"
        /\ HasAttr(body[i].targets[1], "id")
        /\ body[i].targets[1].id = name

\* mv is a Python module that parsed, made from a file without a top-level
\* DOCUMENTATION assignment
LacksDocumentation ==
    /\ Validated
    /\ _python_module(mv)
    /\ file.ast # None
    /\ ~Assigns(file.ast.body, "DOCUMENTATION")

\* C4: a Python module that parses and has no DOCUMENTATION assignment gets
\* exactly one 'No DOCUMENTATION provided' error; schema validation,
\* fragment resolution and the two version checks do not run; the EXAMPLES
\* and RETURN checks and the rule checks run as for any other module.
C4_MissingDocumentationIsOneError ==
    LacksDocumentation =>
        /\ Count(mv.errors, {"No DOCUMENTATION provided"}) = 1
        /\ CallSet(mv) \cap {"get_docstring", "_validate_docs_schema",
                             "_check_version_added", "_check_for_new_args"} = {}
        /\ "examples_return" \in CallSet(mv)
        /\ "_check_for_gpl3_header" \in CallSet(mv)
        /\ ~(\A i \in 1..Len(file.ast.body) : file.ast.body[i].kind = "Assign")
              => {"_check_for_sys_exit", "_find_main_call", "_find_module_utils",
                  "_check_for_tabs", "_check_interpreter"} \subseteq CallSet(mv)

\* the entries of seq that are in set, in their order
Among(seq, set) == LET In(x) == x \in set IN SelectSeq(seq, In)

\* the document the DOCUMENTATION block of the file holds
Document ==
    LET body == file.ast.body
        i == CHOOSE j \in 1..Len(body) :
                 /\ body[j].kind = "Assign"
                 /\ HasAttr(body[j].targets[1], "id")
                 /\ body[j].targets[1].id = "DOCUMENTATION"
    IN  body[i].value.s.load

\* the texts a version tag may be printed as
TagTexts == {"0.0", "2.2", "2.3", "2.4", "2.3.0", "2.3a1", "devel"}

\* every message of the version check of a new module
VersionErrors ==
    {"version_added is not a valid version number: '" \o t \o "'" : t \in TagTexts}
    \cup {"version_added should be 2.3. Currently " \o t : t \in TagTexts}

\* what the claim expects of a new module whose document has these items
C5_Expected(items) ==
    IF "version_added" \notin DOMAIN items
    THEN <<"version_added should be 2.3. Currently 0.0">>
    ELSE IF items.version_added = Devel
    THEN <<"version_added is not a valid version number: 'devel'">>
    ELSE IF items.version_added \in {V23, V230} THEN <<>>
    ELSE <<"version_added should be 2.3. Currently " \o Text(items.version_added)>>

\* C5: when the version check runs on the document of a new module, a tag
\* that is no version earns exactly one 'not a valid version number' error
\* and no mismatch error, a tag (or the default 0.0 of a missing tag) that
\* differs from the release line 2.3 earns exactly one 'version_added should
\* be 2.3. Currently <tag>' error, and a tag equal to the release line earns
\* none; on an existing module the check adds nothing.
C5_VersionAddedOfNewModule ==
    (Validated /\ "_check_version_added" \in CallSet(mv)) =>
        Among(mv.errors, VersionErrors) =
            IF mv.env.has_plugin THEN <<>> ELSE C5_Expected(Document.items)

\* a new module tagged 2.2, reported with the one mismatch error
C5_Witness ==
    /\ Validated
    /\ "_check_version_added" \in CallSet(mv)
    /\ ~mv.env.has_plugin
    /\ "version_added" \in DOMAIN Document.items
    /\ Document.items.version_added = V22
    /\ Among(mv.errors, VersionErrors) = <<"version_added should be 2.3. Currently 2.2">>

\* mv is an existing module whose published document was retrieved and
\* whose options were compared with it
ExistingChecked ==
    /\ Validated
    /\ "_check_for_new_args" \in CallSet(mv)
    /\ mv.env.has_plugin
    /\ mv.env.existing.raised = ""

\* the options of the document of the file, and those of the published one
Options == DictGet(Document.items, "options", EmptyDict)

ExistingOptions == DictGet(mv.env.existing.doc, "options", EmptyDict)

\* the options of the document that the published document does not have
NewOptions == DOMAIN Options \ DOMAIN ExistingOptions

\* every message of the new-option check that names the option
OptionErrors(option) ==
    {"version_added for new option (" \o option \o ") is not a valid version number: '"
        \o t \o "'" : t \in TagTexts}
    \cup {"version_added for new option (" \o option \o ") should be 2.3. Currently " \o t :
            t \in TagTexts}

\* the published document's own tag equals the release line
Baseline ==
    /\ "version_added" \in DOMAIN mv.env.existing.doc
    /\ mv.env.existing.doc.version_added \in {V23, V230}

\* C6 (as claimed): on an existing module every new option without a
\* version tag earns exactly one error that names it, and a new option
\* tagged with the release line earns none.
C6_UntaggedNewOptionIsOneError ==
    ExistingChecked =>
        \A option \in NewOptions :
            /\ "version_added" \notin DOMAIN Options[option]
                  => Len(Among(mv.errors, OptionErrors(option))) = 1
            /\ ("version_added" \in DOMAIN Options[option]
                /\ Options[option].version_added \in {V23, V230})
                  => Among(mv.errors, OptionErrors(option)) = <<>>

\* C6 (amended): on an existing module whose published document was
\* retrieved, a new option without a version tag earns exactly one error,
\* 'version_added for new option (<option>) should be 2.3. Currently 0.0',
\* unless the published document's own tag equals the release line, and
\* then it earns none; a new option tagged with the release line earns none.
C6_UntaggedNewOptionUnlessBaseline ==
    ExistingChecked =>
        \A option \in NewOptions :
            /\ "version_added" \notin DOMAIN Options[option]
                  => Among(mv.errors, OptionErrors(option)) =
                        IF Baseline THEN <<>>
                        ELSE <<"version_added for new option (" \o option
                               \o ") should be 2.3. Currently 0.0">>
            /\ ("version_added" \in DOMAIN Options[option]
                /\ Options[option].version_added \in {V23, V230})
                  => Among(mv.errors, OptionErrors(option)) = <<>>

\* an existing module published with tag 2.2 that gained the untagged option
\* state, reported with the one error that names it
C6_Witness ==
    /\ ExistingChecked
    /\ ~Baseline
    /\ "state" \in NewOptions
    /\ "version_added" \notin DOMAIN Options["state"]
    /\ Among(mv.errors, OptionErrors("state")) =
          <<"version_added for new option (state) should be 2.3. Currently 0.0">>

\* the statement is a top-level __name__ guard that holds a call to main()
GuardsMain(st) ==
    /\ st.kind = "If"
    /\ IsNameGuard(st)
    /\ \E j \in 1..Len(st.body) : IsMainCall(st.body[j])

\* the file calls main() at top level or in a top-level __name__ guard
HasMain(body) == \E i \in 1..Len(body) : IsMainCall(body[i]) \/ GuardsMain(body[i])

\* the call to main() is the final statement of the file
MainIsFinal(body) ==
    /\ body # <<>>
    /\ LET st == body[Len(body)]
       IN  \/ IsMainCall(st)
           \/ /\ GuardsMain(st)
              /\ IsMainCall(st.body[Len(st.body)])

\* C7: a module that calls main(), but not as its final statement, gets
\* exactly one 'Call to main() not the last line' error; a module whose
\* final statement is the call gets none; a module without a call gets
\* 'Did not find a call to main' and no 'not the last line' error.
C7_MainCallNotLastIsOneError ==
    (Validated /\ runs = 1 /\ "_find_main_call" \in CallSet(mv)) =>
        LET body == file.ast.body
            late == Count(mv.errors, {"Call to main() not the last line"})
        IN  /\ (HasMain(body) /\ ~MainIsFinal(body)) => late = 1
            /\ MainIsFinal(body) => late = 0
            /\ ~HasMain(body) =>
                  /\ late = 0
                  /\ Count(mv.errors, {"Did not find a call to main"}) = 1

\* C8: a module on which the license check ran and whose text lacks one of
\* the two phrases of the license header gets the 'GPLv3 license header not
\* found' error, whatever kind of module it is.
C8_MissingLicenseIsAlwaysAnError ==
    (/\ Validated
     /\ "_check_for_gpl3_header" \in CallSet(mv)
     /\ ~({"GNU General Public License", "version 3"} \subseteq mv.text.contains))
        => Count(mv.errors, {"GPLv3 license header not found"}) >= 1

\* C9: when validate() reported no error, the next validate() on the same
\* validator, file and registry reports the same errors, warnings and traces.
C9_RevalidationIsDeterministic ==
    (args.mode = "api" /\ runs >= 2 /\ prev # NoReport /\ prev.errors = <<>>)
        => Report(mv) = prev

\* the first segment of the path below the root is a blacklisted directory
FirstSegmentBlacklisted(path) == path.dirs # <<>> /\ path.dirs[1] \in BLACKLIST_DIRS

\* C10: in a directory run nothing below a blacklisted first segment is
\* validated or reported, a blacklisted directory directly below the root
\* gets no package report, and a path is passed over only for that reason or
\* because --exclude matches it, so a blacklisted name deeper than the first
\* segment is validated.
C10_BlacklistedFirstSegmentIsSkipped ==
    /\ \A i \in 1..Len(reports) : ~FirstSegmentBlacklisted(reports[i].path)
    /\ last.op = "validate" => ~FirstSegmentBlacklisted(last.path)
    /\ last.op = "skip" => FirstSegmentBlacklisted(last.path) \/ Excluded(last.path)

\* a run that reported the package directory a/test and then passed over
\* the directory test of the root, which holds mod.py
C10_Witness ==
    /\ \E i \in 1..Len(reports) : reports[i].path = Path(<<"a", "test">>, <<>>)
    /\ last.op = "skip"
    /\ last.kind = "root"
    /\ last.path = Path(<<"test">>, <<>>)
    /\ last.listing[2] = <<ModPy>>

\* every message of the tab check
TabMessages ==
    {"indentation contains tabs. line " \o l \o " column " \o c :
        l \in {"1", "2", "3"}, c \in {"0", "1", "2", "3", "4", "5"}}

\* what the claim expects of the lines that hold a tab: one error for each
\* line whose tab is indentation, with its one-based line and the index of
\* the tab
RECURSIVE IndentationErrors(_)
IndentationErrors(tabs) ==
    IF tabs = <<>> THEN <<>>
    ELSE (IF Head(tabs).indent
          THEN <<"indentation contains tabs. line " \o IntText(Head(tabs).line_no + 1)
                 \o " column " \o IntText(Head(tabs).index)>>
          ELSE <<>>) \o IndentationErrors(Tail(tabs))

\* C11: a module on which the tab check ran gets the error 'indentation
\* contains tabs. line L column C' for each line L whose indentation holds
\* a tab at column C and no other indentation error: a line without a tab
\* in its indentation gets none.
C11_OnlyIndentationTabsAreErrors ==
    (Validated /\ "_check_for_tabs" \in CallSet(mv)) =>
        Among(mv.errors, TabMessages) = IndentationErrors(mv.text.tabs)

\* the text of the version tag of the details of an option, 0.0 if it has none
TagText(details) ==
    IF "version_added" \in DOMAIN details THEN Text(details.version_added) ELSE "0.0"

\* the tag of the details is no version number
Malformed(details) == "version_added" \in DOMAIN details /\ details.version_added = Devel

\* the tag of the details is the version of the release line
IsReleaseLine(details) ==
    "version_added" \in DOMAIN details /\ details.version_added \in {V23, V230}

\* what the claim expects of a new option with these details
C12_Expected(option, details) ==
    IF Malformed(details)
    THEN <<"version_added for new option (" \o option
           \o ") is not a valid version number: 'devel'">>
    ELSE IF ~IsReleaseLine(details) /\ ~Baseline
    THEN <<"version_added for new option (" \o option \o ") should be 2.3. Currently "
           \o TagText(details)>>
    ELSE <<>>

\* C12 (as claimed): on an existing module whose published document was
\* retrieved, a new option whose tag is a version gets the mismatch error
\* that names it, the release line and its tag exactly when the tag differs
\* from the release line and the published document's own tag does not equal
\* the release line; a new option with a malformed tag gets the 'not a valid
\* version number' error whatever the published tag is; an option the
\* published document already has gets no version error.
C12_BaselineException ==
    ExistingChecked =>
        /\ \A option \in NewOptions :
              Among(mv.errors, OptionErrors(option)) = C12_Expected(option, Options[option])
        /\ \A option \in DOMAIN Options \cap DOMAIN ExistingOptions :
              Among(mv.errors, OptionErrors(option)) = <<>>

\* the options of the document that the published document does not have or
\* has with an empty entry
UndocumentedOptions ==
    {option \in DOMAIN Options :
        option \in DOMAIN ExistingOptions => DOMAIN ExistingOptions[option] = {}}

\* C12 (amended): the same, with an option counted as new when the published
\* document does not have it or has it with an empty entry; only an option
\* the published document has with a non-empty entry gets no version error.
C12_BaselineExceptionForUndocumented ==
    ExistingChecked =>
        /\ \A option \in UndocumentedOptions :
              Among(mv.errors, OptionErrors(option)) = C12_Expected(option, Options[option])
        /\ \A option \in DOMAIN Options \ UndocumentedOptions :
              Among(mv.errors, OptionErrors(option)) = <<>>

\* an existing module published with tag 2.3 that gained the option state
\* tagged 2.2, reported without a version error for it
C12_Witness ==
    /\ ExistingChecked
    /\ Baseline
    /\ "state" \in NewOptions
    /\ "version_added" \in DOMAIN Options["state"]
    /\ Options["state"].version_added = V22
    /\ Among(mv.errors, OptionErrors("state")) = <<>>

\* the file has no top-level assignment to the name, or one of the empty
\* string
AbsentOrEmpty(body, name) ==
    \A i \in 1..Len(body) :
        (/\ body[i].kind = "Assign"
         /\ HasAttr(body[i].targets[1], "id")
         /\ body[i].targets[1].id = name)
            => /\ HasAttr(body[i].value, "s")
               /\ body[i].value.s.len = 0

\* mv is a Python module that parsed
ParsedPython == Validated /\ _python_module(mv) /\ file.ast # None

\* C13: a Python module that parses and has no RETURN block, or an empty
\* one, gets exactly one entry for it: the error 'No RETURN documentation
\* provided' if the module is new, else the warning 'No RETURN provided' and
\* no error, whether or not its DOCUMENTATION block is present or valid; a
\* module without an EXAMPLES block gets the error 'No EXAMPLES provided'.
C13_SeverityOfMissingReturn ==
    ParsedPython =>
        /\ AbsentOrEmpty(file.ast.body, "RETURN") =>
              /\ Count(mv.errors, {"No RETURN documentation provided"})
                    = IF mv.env.has_plugin THEN 0 ELSE 1
              /\ Count(mv.warnings, {"No RETURN provided"})
                    = IF mv.env.has_plugin THEN 1 ELSE 0
        /\ ~Assigns(file.ast.body, "EXAMPLES") =>
              Count(mv.errors, {"No EXAMPLES provided"}) = 1

====
